---------------------------- MODULE Spec2Model ----------------------------
(***************************************************************************)
(* Model of src/display_picture.py: crop() (covering resize, centred       *)
(* offsets, saliency-driven shift, final window, forced resize) and main() *)
(* (load, process, display, save).                                         *)
(*                                                                         *)
(* Python's float is IEEE-754 binary64.  crop() computes its geometry with *)
(* true division, float multiplication and int() truncation, so the model  *)
(* carries a small software implementation of binary64 (round to nearest,  *)
(* ties to even) over multi-limb naturals.                                 *)
(***************************************************************************)
EXTENDS Integers, Sequences, FiniteSets, TLC

(***************************************************************************)
(* Bounds of the model.                                                    *)
(***************************************************************************)
MaxDim == 4
MaxSame == 15
MaxStrip == 66
MaxMainDim == 2

(***************************************************************************)
(* Program constants.                                                      *)
(***************************************************************************)
CONVOLUTION_KERNEL_SIZE == 64

(***************************************************************************)
(* Multi-limb naturals: a sequence of NLimbs limbs, least significant      *)
(* first, each in 0..LimbBase-1.                                           *)
(***************************************************************************)
LimbBase == 65536
LimbBits == 16
NLimbs == 6
MantissaBits == 53

WZero == [i \in 1..NLimbs |-> 0]

\* 0 <= n < 2^31
WFromInt(n) == [i \in 1..NLimbs |-> IF i = 1 THEN n % LimbBase
                                    ELSE IF i = 2 THEN n \div LimbBase
                                    ELSE 0]

\* w < 2^31
WToInt(w) == w[1] + LimbBase * w[2]

RECURSIVE MulRec(_, _, _, _)
MulRec(w, k, i, carry) ==
    IF i > NLimbs THEN << >>
    ELSE LET t == w[i] * k + carry
         IN  << t % LimbBase >> \o MulRec(w, k, i + 1, t \div LimbBase)

\* w * k + c for 0 <= k, c < 2^15
WMulAdd(w, k, c) == MulRec(w, k, 1, c)

RECURSIVE GeqRec(_, _, _)
GeqRec(a, b, i) ==
    IF i = 0 THEN TRUE
    ELSE IF a[i] # b[i] THEN a[i] > b[i]
    ELSE GeqRec(a, b, i - 1)

WGeq(a, b) == GeqRec(a, b, NLimbs)

RECURSIVE SubRec(_, _, _, _)
SubRec(a, b, i, borrow) ==
    IF i > NLimbs THEN << >>
    ELSE LET t == a[i] - b[i] - borrow
         IN  IF t < 0 THEN << t + LimbBase >> \o SubRec(a, b, i + 1, 1)
             ELSE << t >> \o SubRec(a, b, i + 1, 0)

\* a - b, for a >= b
WSub(a, b) == SubRec(a, b, 1, 0)

RECURSIVE IntBitLen(_)
IntBitLen(n) == IF n = 0 THEN 0 ELSE 1 + IntBitLen(n \div 2)

RECURSIVE BitLenRec(_, _)
BitLenRec(w, i) ==
    IF i = 0 THEN 0
    ELSE IF w[i] # 0 THEN LimbBits * (i - 1) + IntBitLen(w[i])
    ELSE BitLenRec(w, i - 1)

WBitLen(w) == BitLenRec(w, NLimbs)

WLimb(w, i) == IF i <= NLimbs THEN w[i] ELSE 0

\* w \div 2^n
WShr(w, n) ==
    LET lq == n \div LimbBits
        p  == 2 ^ (n % LimbBits)
    IN  [i \in 1..NLimbs |-> (WLimb(w, i + lq) \div p)
                             + (WLimb(w, i + lq + 1) % p) * (LimbBase \div p)]

\* w * 2^n, for a result below 2^(LimbBits * NLimbs)
RECURSIVE WShl(_, _)
WShl(w, n) ==
    IF n = 0 THEN w
    ELSE IF n >= 8 THEN WShl(WMulAdd(w, 256, 0), n - 8)
    ELSE WMulAdd(w, 2 ^ n, 0)

\* bit j of w (bit 0 is the least significant)
WBit(w, j) == (WLimb(w, j \div LimbBits + 1) \div (2 ^ (j % LimbBits))) % 2

\* w % 2^n = 0
WLowZero(w, n) ==
    /\ \A i \in 1..NLimbs : i <= n \div LimbBits => w[i] = 0
    /\ WLimb(w, n \div LimbBits + 1) % (2 ^ (n % LimbBits)) = 0

WOdd(w) == w[1] % 2 = 1

(***************************************************************************)
(* binary64.  A float is [neg, sig, exp] with value (+/-) sig * 2^exp; a    *)
(* nonzero float has a sig of exactly MantissaBits bits.                   *)
(***************************************************************************)
FZero == [neg |-> FALSE, sig |-> WZero, exp |-> 0]

FIsZero(x) == x.sig = WZero

\* Round to nearest, ties to even.  The exact value is w * 2^exp, plus a
\* fraction strictly between 0 and 2^exp when sticky; w has at least
\* MantissaBits bits.  The bits of w below the mantissa are shifted out: the
\* highest of them is the guard bit, the rest join sticky.
FRound(neg, w, exp, sticky) ==
    LET n     == WBitLen(w) - MantissaBits
        guard == n >= 1 /\ WBit(w, n - 1) = 1
        rest  == sticky \/ (n >= 2 /\ ~WLowZero(w, n - 1))
        sig0  == WShr(w, n)
        up    == guard /\ (rest \/ WOdd(sig0))
        r     == IF up THEN WMulAdd(sig0, 1, 1) ELSE sig0
    IN  IF WBitLen(r) > MantissaBits
        THEN [neg |-> neg, sig |-> WShr(r, 1), exp |-> exp + n + 1]
        ELSE [neg |-> neg, sig |-> r, exp |-> exp + n]

Abs(n) == IF n < 0 THEN -n ELSE n

\* Long division of n by d in base LimbBase, one limb a step: the quotient
\* acc = floor(n * LimbBase^k / d) after k steps, and the remainder r.
RECURSIVE DivIntRec(_, _, _, _)
DivIntRec(acc, r, d, i) ==
    IF i = 0 THEN [q |-> acc, r |-> r]
    ELSE LET t == r * LimbBase
         IN  DivIntRec(<< t \div d >> \o acc, t % d, d, i - 1)

\* n / d for Python ints (true division, correctly rounded); d # 0 and
\* |n|, |d| < 2^15
FDivInt(n, d) ==
    IF n = 0 THEN FZero
    ELSE LET an == Abs(n)
             ad == Abs(d)
             l  == DivIntRec(<< an \div ad >>, an % ad, ad, NLimbs - 1)
         IN  FRound((n < 0) # (d < 0), l.q, -(LimbBits * (NLimbs - 1)), l.r # 0)

\* k * x for a Python int k (|k| < 2^15) and a float x
FMulInt(k, x) ==
    IF k = 0 \/ FIsZero(x) THEN FZero
    ELSE FRound((k < 0) # x.neg, WMulAdd(x.sig, Abs(k), 0), x.exp, FALSE)

\* Long division of the multi-limb r by the multi-limb d (MantissaBits bits,
\* r < d), one base-256 digit a step.  The digit floor(256 * r / d) is
\* estimated from the leading bits of both and is off by at most one; the
\* largest candidate whose product with d does not exceed 256 * r is taken.
RECURSIVE DivWideRec(_, _, _, _)
DivWideRec(q, r, d, i) ==
    IF i = 0 THEN [q |-> q, r |-> r]
    ELSE LET r256  == WMulAdd(r, 256, 0)
             cut   == MantissaBits - 15
             est   == WToInt(WShr(r256, cut)) \div WToInt(WShr(d, cut))
             cands == {m \in (est - 1)..(est + 1) :
                          m >= 0 /\ m <= 255 /\ WGeq(r256, WMulAdd(d, m, 0))}
             digit == CHOOSE m \in cands : \A o \in cands : o <= m
         IN  DivWideRec(WMulAdd(q, 256, digit),
                        WSub(r256, WMulAdd(d, digit, 0)), d, i - 1)

\* k / x for a Python int k (|k| < 2^15) and a nonzero float x.  The dividend
\* is first scaled to MantissaBits - 1 bits, which puts it below x.sig; eight
\* digits then give the quotient at least MantissaBits + 2 bits.
FIntDiv(k, x) ==
    IF k = 0 THEN FZero
    ELSE LET s0 == MantissaBits - 1 - IntBitLen(Abs(k))
             l  == DivWideRec(WZero, WShl(WFromInt(Abs(k)), s0), x.sig, 8)
         IN  FRound((k < 0) # x.neg, l.q, -x.exp - s0 - 64, l.r # WZero)

\* |x| truncated to an integer, for |x| < 2^31
FTruncAbs(x) ==
    IF -x.exp >= LimbBits * NLimbs THEN 0
    ELSE IF x.exp <= 0 THEN WToInt(WShr(x.sig, -x.exp))
    ELSE WToInt(WShl(x.sig, x.exp))

\* int(x): truncation towards zero
FInt(x) == IF x.neg THEN -FTruncAbs(x) ELSE FTruncAbs(x)

\* |a| < |b|
FMagLess(a, b) ==
    IF FIsZero(b) THEN FALSE
    ELSE IF FIsZero(a) THEN TRUE
    ELSE IF a.exp # b.exp THEN a.exp < b.exp
    ELSE a.sig # b.sig /\ WGeq(b.sig, a.sig)

\* x < y
FLess(x, y) ==
    IF x.neg /\ ~FIsZero(x)
    THEN IF y.neg /\ ~FIsZero(y) THEN FMagLess(y, x) ELSE TRUE
    ELSE IF y.neg /\ ~FIsZero(y) THEN FALSE ELSE FMagLess(x, y)

(***************************************************************************)
(* numpy and cv2 as crop() uses them.  An image is its shape [h, w] (its    *)
(* three channels play no part in the geometry).                           *)
(***************************************************************************)
None == [h |-> -1, w |-> -1]

Shape(h, w) == [h |-> h, w |-> w]

\* image.size == 0
IsEmpty(img) == img.h * img.w = 0

\* cv2.resize(src, (w, h)) raises cv2.error for an empty source or a
\* destination size that is not positive
ResizeFails(src, w, h) == IsEmpty(src) \/ w <= 0 \/ h <= 0

Min(a, b) == IF a < b THEN a ELSE b
Max(a, b) == IF a > b THEN a ELSE b

\* len(range(n)[start:stop]): a negative bound counts from the end, and both
\* are clipped to 0..n
SliceLen(n, start, stop) ==
    LET clip(i) == IF i < 0 THEN Max(i + n, 0) ELSE Min(i, n)
    IN  Max(clip(stop) - clip(start), 0)

RECURSIVE SumRange(_, _, _)
SumRange(a, lo, hi) ==
    IF lo > hi THEN 0
    ELSE IF lo = hi THEN a[lo]
    ELSE LET mid == (lo + hi) \div 2
         IN  SumRange(a, lo, mid) + SumRange(a, mid + 1, hi)

\* np.convolve(a, np.ones(k) / k, "same"), every element multiplied by k.
\* The full convolution has at 0-based position j the sum of a over the
\* positions j-k+1 .. j that exist; "same" returns max(len(a), k) elements
\* of it, starting at position (min(len(a), k) - 1) // 2.  The weights 1/k
\* are a power of two for the kernel size of the program and the elements of
\* a are uint8, so the float sums are exact and compare as these integer sums.
ConvolveSame(a, k) ==
    LET n   == Len(a)
        off == (Min(n, k) - 1) \div 2
    IN  [i \in 1..Max(n, k) |->
            SumRange(a, Max(i + off - k + 1, 1), Min(i + off, n))]

\* ArgMax gone wrong: the index of the last maximum
ArgMaxLast(s) ==
    (CHOOSE i \in DOMAIN s :
        /\ \A j \in DOMAIN s : s[j] <= s[i]
        /\ \A j \in DOMAIN s : j > i => s[j] < s[i]) - 1

\* np.argmax(s): the 0-based index of the first maximum
ArgMax(s) ==
    (CHOOSE i \in DOMAIN s :
        /\ \A j \in DOMAIN s : s[j] <= s[i]
        /\ \A j \in DOMAIN s : j < i => s[j] < s[i]) - 1

\* lines 167-177: the window resized_image[y_off:y_off + disp_h,
\* x_off:x_off + disp_w], resized to the display size when its shape is not
\* the display's
WindowOutcome(resized, x, y, w, h) ==
    LET c_h == SliceLen(resized.h, y, y + h)
        c_w == SliceLen(resized.w, x, x + w)
    IN  IF c_w # w \/ c_h # h
        THEN IF ResizeFails(Shape(c_h, c_w), w, h)
             THEN [cropped_image |-> Shape(c_h, c_w), forced |-> FALSE,
                   raised |-> "cv2.error"]
             ELSE [cropped_image |-> Shape(h, w), forced |-> TRUE,
                   raised |-> "none"]
        ELSE [cropped_image |-> Shape(c_h, c_w), forced |-> FALSE,
              raised |-> "none"]

(***************************************************************************)
(* The geometry of crop().                                                 *)
(***************************************************************************)
\* ResizeDims gone wrong: both sides are scaled by the aspect ratio, whichever
\* side the image overflows
ResizeDimsBoth(img_aspect, disp_aspect, disp_w, disp_h) ==
    << FInt(FMulInt(disp_h, img_aspect)), FInt(FIntDiv(disp_w, img_aspect)) >>

\* lines 107-112: the size the image is resized to
ResizeDims(img_aspect, disp_aspect, disp_w, disp_h) ==
    IF FLess(img_aspect, disp_aspect)
    THEN << disp_w, FInt(FIntDiv(disp_w, img_aspect)) >>
    ELSE << FInt(FMulInt(disp_h, img_aspect)), disp_h >>

\* CenterOffset gone wrong: (img - disp) // 2, which rounds down
CenterOffsetFloor(img, disp) == (img - disp) \div 2

\* lines 119-120: int((img - disp) / 2)
CenterOffset(img, disp) == FInt(FDivInt(img - disp, 2))

\* lines 147, 158: int(img / 2)
ImageCentre(img) == FInt(FDivInt(img, 2))

\* lines 148, 159: max(min(sal_centre - img_centre, off), -off)
ClampedShift(sal_centre, img_centre, off) ==
    Max(Min(sal_centre - img_centre, off), -off)

(***************************************************************************)
(* The saliency maps the model draws: along the crop axis, the profile     *)
(* np.max(saliency_map, axis) of a uint8 map is all zero, all 255, or 255   *)
(* at one position and zero elsewhere.                                     *)
(***************************************************************************)
Profiles(n) ==
    {[i \in 1..n |-> 0], [i \in 1..n |-> 255]}
        \cup {[i \in 1..n |-> IF i = p THEN 255 ELSE 0] : p \in 1..n}

VARIABLES
    pc,             \* the statement crop() or main() is at
    image,          \* crop(image, ...): the shape of the source image
    disp_w,         \* crop(..., disp_w, ...)
    disp_h,         \* crop(..., disp_h, ...)
    intelligent,    \* crop(..., intelligent)
    img_w,          \* the local img_w: the source width, then the resized one
    img_h,          \* the local img_h
    img_aspect,     \* a float
    disp_aspect,    \* a float
    resize,         \* the tuple (width, height) handed to cv2.resize
    resized_image,  \* its shape
    x_off,
    y_off,
    probe,          \* what the saliency block met: "none", "ok", "fail", "exception"
    smooth_len,     \* len() of the smoothed profile
    profile,        \* the local vert or horiz, before it is smoothed
    sal_centre,
    cropped_image,  \* its shape
    forced,         \* whether the forced resize of lines 175-177 ran
    raised,         \* the exception crop() raised, or "none"
    caller,         \* who called crop(): "main", or "direct" for any other caller
    args,           \* main(): the parsed command line and what it names
    processed_image,
    dw_stage,       \* display_waveshare(): the statement it is at
    display_error,  \* the exception display_waveshare() raised, or "none"
    save_calls,     \* the images save_image() was called with
    saved,          \* whether a save_image() call wrote its file
    ret             \* what main() returned, or -1

vars == << pc, image, disp_w, disp_h, intelligent, img_w, img_h, img_aspect,
           disp_aspect, resize, resized_image, x_off, y_off, probe, smooth_len,
           profile, sal_centre, cropped_image, forced, raised, caller, args,
           processed_image, dw_stage, display_error, save_calls, saved, ret >>

cropLocals == << img_w, img_h, img_aspect, disp_aspect, resize, resized_image,
                 x_off, y_off, probe, smooth_len, profile, sal_centre,
                 cropped_image, forced, raised >>

mainVars == << caller, args, processed_image, dw_stage, display_error,
               save_calls, saved, ret >>

cropArgs == << image, disp_w, disp_h, intelligent, mainVars >>

(***************************************************************************)
(* The calls of crop() the model makes.                                    *)
(***************************************************************************)
\* every shape and display size up to MaxDim, empty and None images and
\* display sizes that are not positive included
CubeCalls ==
    [image : {None} \cup {Shape(h, w) : h \in 0..MaxDim, w \in 0..MaxDim},
     disp_w : -1..MaxDim, disp_h : -1..MaxDim, intelligent : BOOLEAN]

\* an image that already has the size of the display
SameCalls ==
    {[image |-> Shape(h, w), disp_w |-> w, disp_h |-> h, intelligent |-> i] :
        h \in 1..MaxSame, w \in 1..MaxSame, i \in BOOLEAN}

\* an image one pixel wide, for a display one pixel wide
StripCalls ==
    {[image |-> Shape(h, 1), disp_w |-> 1, disp_h |-> IF same THEN h ELSE 1,
      intelligent |-> i] :
        h \in 1..MaxStrip, same \in BOOLEAN, i \in BOOLEAN}

CropCalls == CubeCalls \cup SameCalls \cup StripCalls

InitLocals ==
    /\ img_w = 0
    /\ img_h = 0
    /\ img_aspect = FZero
    /\ disp_aspect = FZero
    /\ resize = << 0, 0 >>
    /\ resized_image = None
    /\ x_off = 0
    /\ y_off = 0
    /\ probe = "none"
    /\ smooth_len = 0
    /\ profile = << >>
    /\ sal_centre = 0
    /\ cropped_image = None
    /\ forced = FALSE
    /\ raised = "none"

NoArgs ==
    [width |-> 0, height |-> 0, portrait |-> FALSE, centre_crop |-> FALSE,
     resize_only |-> FALSE, simulate_display |-> FALSE, output |-> FALSE,
     load |-> "ok", file |-> None]

InitMainLocals ==
    /\ processed_image = None
    /\ dw_stage = 0
    /\ display_error = "none"
    /\ save_calls = << >>
    /\ saved = FALSE
    /\ ret = -1

\* crop() is called with any of CropCalls
Init ==
    /\ \E c \in CropCalls :
        /\ image = c.image
        /\ disp_w = c.disp_w
        /\ disp_h = c.disp_h
        /\ intelligent = c.intelligent
    /\ pc = "crop"
    /\ caller = "direct"
    /\ args = NoArgs
    /\ InitLocals
    /\ InitMainLocals

Raise(e) ==
    /\ raised' = e
    /\ pc' = "raised"

\* lines 94-98
CropValidate ==
    /\ pc = "crop"
    /\ IF image = None \/ IsEmpty(image)
       THEN /\ Raise("ValueError")
            /\ UNCHANGED << img_w, img_h >>
       ELSE /\ img_h' = image.h
            /\ img_w' = image.w
            /\ pc' = "aspect"
            /\ UNCHANGED raised
    /\ UNCHANGED << cropArgs, img_aspect, disp_aspect, resize, resized_image,
                    x_off, y_off, probe, smooth_len, profile, sal_centre, cropped_image,
                    forced >>

\* lines 100-101
CropAspect ==
    /\ pc = "aspect"
    /\ img_aspect' = FDivInt(img_w, img_h)
    /\ IF disp_h = 0
       THEN /\ Raise("ZeroDivisionError")
            /\ UNCHANGED disp_aspect
       ELSE /\ disp_aspect' = FDivInt(disp_w, disp_h)
            /\ pc' = "resize"
            /\ UNCHANGED raised
    /\ UNCHANGED << cropArgs, img_w, img_h, resize, resized_image, x_off, y_off,
                    probe, smooth_len, profile, sal_centre, cropped_image, forced >>

\* lines 107-116
CropResize ==
    /\ pc = "resize"
    /\ resize' = ResizeDims(img_aspect, disp_aspect, disp_w, disp_h)
    /\ IF ResizeFails(image, resize'[1], resize'[2])
       THEN /\ Raise("cv2.error")
            /\ UNCHANGED << resized_image, img_w, img_h >>
       ELSE /\ resized_image' = Shape(resize'[2], resize'[1])
            /\ img_h' = resize'[2]
            /\ img_w' = resize'[1]
            /\ pc' = "offsets"
            /\ UNCHANGED raised
    /\ UNCHANGED << cropArgs, img_aspect, disp_aspect, x_off, y_off, probe,
                    smooth_len, profile, sal_centre, cropped_image, forced >>

\* lines 119-130
CropOffsets ==
    /\ pc = "offsets"
    /\ x_off' = CenterOffset(img_w, disp_w)
    /\ y_off' = CenterOffset(img_h, disp_h)
    /\ IF ~(x_off' = 0 \/ y_off' = 0)
       THEN Raise("AssertionError")
       ELSE /\ pc' = IF intelligent THEN "saliency" ELSE "window"
            /\ UNCHANGED raised
    /\ UNCHANGED << cropArgs, img_w, img_h, img_aspect, disp_aspect, resize,
                    resized_image, probe, smooth_len, profile, sal_centre, cropped_image,
                    forced >>

\* CropSaliencyUnavailable gone wrong: the offset of the crop axis is moved
\* to the start of the image before the probe is found unavailable
CropSaliencyUnavailableShifted ==
    /\ pc = "saliency"
    /\ \E p \in {"fail", "exception"} : probe' = p
    /\ pc' = "window"
    /\ IF x_off = 0
       THEN /\ y_off' = 0
            /\ UNCHANGED x_off
       ELSE /\ x_off' = 0
            /\ UNCHANGED y_off
    /\ UNCHANGED << cropArgs, img_w, img_h, img_aspect, disp_aspect, resize,
                    resized_image, smooth_len, profile, sal_centre,
                    cropped_image, forced, raised >>

\* lines 131-136 and 162-164: computeSaliency reports no success, or
\* something in the try block raises; either way the offsets stay as they are
CropSaliencyUnavailable ==
    /\ pc = "saliency"
    /\ \E p \in {"fail", "exception"} : probe' = p
    /\ pc' = "window"
    /\ UNCHANGED << cropArgs, img_w, img_h, img_aspect, disp_aspect, resize,
                    resized_image, x_off, y_off, smooth_len, profile,
                    sal_centre, cropped_image, forced, raised >>

\* lines 137-161: the saliency map is there
CropSaliencyShift ==
    /\ pc = "saliency"
    /\ probe' = "ok"
    /\ IF x_off = 0
       THEN \E vert \in Profiles(img_h) :
               LET smooth == ConvolveSame(vert, CONVOLUTION_KERNEL_SIZE)
               IN  /\ profile' = vert
                   /\ smooth_len' = Len(smooth)
                   /\ sal_centre' = ArgMax(smooth)
                   /\ y_off' = y_off + ClampedShift(sal_centre', ImageCentre(img_h), y_off)
                   /\ UNCHANGED x_off
       ELSE \E horiz \in Profiles(img_w) :
               LET smooth == ConvolveSame(horiz, CONVOLUTION_KERNEL_SIZE)
               IN  /\ profile' = horiz
                   /\ smooth_len' = Len(smooth)
                   /\ sal_centre' = ArgMax(smooth)
                   /\ x_off' = x_off + ClampedShift(sal_centre', ImageCentre(img_w), x_off)
                   /\ UNCHANGED y_off
    /\ pc' = "window"
    /\ UNCHANGED << cropArgs, img_w, img_h, img_aspect, disp_aspect, resize,
                    resized_image, cropped_image, forced, raised >>

\* lines 167-179
CropWindow ==
    /\ pc = "window"
    /\ LET out == WindowOutcome(resized_image, x_off, y_off, disp_w, disp_h)
       IN  /\ cropped_image' = out.cropped_image
           /\ forced' = out.forced
           /\ raised' = out.raised
           /\ pc' = IF out.raised = "none" THEN "returned" ELSE "raised"
    /\ UNCHANGED << cropArgs, img_w, img_h, img_aspect, disp_aspect, resize,
                    resized_image, x_off, y_off, probe, smooth_len, profile,
                    sal_centre >>

Next ==
    \/ CropValidate
    \/ CropAspect
    \/ CropResize
    \/ CropOffsets
    \/ CropSaliencyUnavailable
    \/ CropSaliencyShift
    \/ CropWindow

Spec == Init /\ [][Next]_vars

(***************************************************************************)
(* main() and display_waveshare().                                         *)
(***************************************************************************)
\* the statements of display_waveshare()'s try block that can raise: the
\* import (197), EPD() (198), the rotation and conversion (201-207), init()
\* (211), display() (214) and sleep() (217)
DwStages == << "import", "EPD", "convert", "init", "display", "sleep" >>

\* what a statement of the try block does: it completes, or raises an
\* ImportError, or raises some other Exception
DwOutcomes == {"ok", "ImportError", "Exception"}

\* DwRaises gone wrong: the exception is raised again as it is
DwRaisesUnwrapped(outcome) == outcome

\* lines 220-227: an ImportError is raised again, any other Exception is
\* raised as a RuntimeError
DwRaises(outcome) == IF outcome = "ImportError" THEN "ImportError" ELSE "RuntimeError"

\* what save_image() does: it writes the file, or raises the ValueError of
\* line 76, or os.makedirs or cv2.imwrite raise
SaveOutcomes == {"ok", "ValueError", "OSError", "cv2.error"}

\* the command lines and files the model runs main() with
MainCalls ==
    [width : 0..MaxMainDim, height : 0..MaxMainDim, portrait : BOOLEAN,
     centre_crop : BOOLEAN, resize_only : BOOLEAN, simulate_display : BOOLEAN,
     output : BOOLEAN, load : {"ok"},
     file : {Shape(h, w) : h \in 1..MaxMainDim, w \in 1..MaxMainDim}]
        \cup
    [width : {1}, height : {1}, portrait : {FALSE}, centre_crop : {FALSE},
     resize_only : {FALSE}, simulate_display : {FALSE}, output : BOOLEAN,
     load : {"FileNotFoundError", "ValueError"}, file : {None}]

InitMain ==
    /\ args \in MainCalls
    /\ pc = "main"
    /\ caller = "main"
    /\ image = None
    /\ disp_w = 0
    /\ disp_h = 0
    /\ intelligent = FALSE
    /\ InitLocals
    /\ InitMainLocals

Return(code) ==
    /\ ret' = code
    /\ pc' = "exit"

\* lines 319-331
MainLoad ==
    /\ pc = "main"
    /\ disp_w' = IF args.portrait THEN args.height ELSE args.width
    /\ disp_h' = IF args.portrait THEN args.width ELSE args.height
    /\ IF args.load # "ok"
       THEN /\ Return(1)
            /\ UNCHANGED image
       ELSE /\ image' = args.file
            /\ pc' = "process"
            /\ UNCHANGED ret
    /\ UNCHANGED << intelligent, cropLocals, caller, args, processed_image,
                    dw_stage, display_error, save_calls, saved >>

\* lines 334-342; an exception of cv2.resize goes to line 366
MainProcess ==
    /\ pc = "process"
    /\ IF args.resize_only
       THEN /\ IF ResizeFails(image, disp_w, disp_h)
               THEN /\ Return(1)
                    /\ UNCHANGED processed_image
               ELSE /\ processed_image' = Shape(disp_h, disp_w)
                    /\ pc' = "display"
                    /\ UNCHANGED ret
            /\ UNCHANGED intelligent
       ELSE /\ intelligent' = ~args.centre_crop
            /\ pc' = "crop"
            /\ UNCHANGED << processed_image, ret >>
    /\ UNCHANGED << image, disp_w, disp_h, cropLocals, caller, args, dw_stage,
                    display_error, save_calls, saved >>

\* line 342: crop() returned
MainCropReturned ==
    /\ pc = "returned"
    /\ caller = "main"
    /\ processed_image' = cropped_image
    /\ pc' = "display"
    /\ UNCHANGED << image, disp_w, disp_h, intelligent, cropLocals, caller, args,
                    dw_stage, display_error, save_calls, saved, ret >>

\* lines 366-371: crop() raised
MainCropRaised ==
    /\ pc = "raised"
    /\ caller = "main"
    /\ Return(1)
    /\ UNCHANGED << image, disp_w, disp_h, intelligent, cropLocals, caller, args,
                    processed_image, dw_stage, display_error, save_calls, saved >>

\* lines 345-353
MainDisplay ==
    /\ pc = "display"
    /\ IF args.simulate_display
       THEN /\ pc' = "save"
            /\ UNCHANGED dw_stage
       ELSE /\ pc' = "waveshare"
            /\ dw_stage' = 1
    /\ UNCHANGED << image, disp_w, disp_h, intelligent, cropLocals, caller, args,
                    processed_image, display_error, save_calls, saved, ret >>

\* lines 195-227: one statement of display_waveshare()
DisplayWaveshare ==
    /\ pc = "waveshare"
    /\ \E outcome \in DwOutcomes :
          IF outcome = "ok"
          THEN /\ IF dw_stage = Len(DwStages)
                  THEN /\ pc' = "save"
                       /\ UNCHANGED dw_stage
                  ELSE /\ dw_stage' = dw_stage + 1
                       /\ UNCHANGED pc
               /\ UNCHANGED display_error
          ELSE /\ display_error' = DwRaises(outcome)
               /\ pc' = "display_raised"
               /\ UNCHANGED dw_stage
    /\ UNCHANGED << image, disp_w, disp_h, intelligent, cropLocals, caller, args,
                    processed_image, save_calls, saved, ret >>

\* lines 349-351: the except clause around display_waveshare(); an exception
\* it does not name goes to line 366
MainDisplayRaised ==
    /\ pc = "display_raised"
    /\ IF display_error \in {"ImportError", "RuntimeError"}
       THEN /\ pc' = "save"
            /\ UNCHANGED ret
       ELSE Return(1)
    /\ UNCHANGED << image, disp_w, disp_h, intelligent, cropLocals, caller, args,
                    processed_image, dw_stage, display_error, save_calls, saved >>

\* lines 356-364 and save_image(); an exception other than ValueError goes
\* to line 366
MainSave ==
    /\ pc = "save"
    /\ IF args.output
       THEN \E outcome \in SaveOutcomes :
               /\ save_calls' = Append(save_calls, processed_image)
               /\ saved' = (outcome = "ok")
               /\ Return(IF outcome = "ok" THEN 0 ELSE 1)
       ELSE /\ Return(0)
            /\ UNCHANGED << save_calls, saved >>
    /\ UNCHANGED << image, disp_w, disp_h, intelligent, cropLocals, caller, args,
                    processed_image, dw_stage, display_error >>

NextMain ==
    \/ MainLoad
    \/ MainProcess
    \/ CropValidate
    \/ CropAspect
    \/ CropResize
    \/ CropOffsets
    \/ CropSaliencyUnavailable
    \/ CropSaliencyShift
    \/ CropWindow
    \/ MainCropReturned
    \/ MainCropRaised
    \/ MainDisplay
    \/ DisplayWaveshare
    \/ MainDisplayRaised
    \/ MainSave

SpecMain == InitMain /\ [][NextMain]_vars

(***************************************************************************)
(* The properties of crop(), checked under Spec.                           *)
(***************************************************************************)
\* crop() was given an image and a display whose dimensions are all positive
PositiveInputs ==
    /\ image # None
    /\ image.w > 0
    /\ image.h > 0
    /\ disp_w > 0
    /\ disp_h > 0

\* crop() was given an image or a display with a dimension that is not positive
InvalidDims ==
    /\ image # None
    /\ (image.w <= 0 \/ image.h <= 0 \/ disp_w <= 0 \/ disp_h <= 0)

\* line 107 has been passed: resize is the size handed to cv2.resize
ResizeComputed ==
    \/ pc \in {"offsets", "saliency", "window", "returned"}
    \/ pc = "raised" /\ raised \in {"cv2.error", "AssertionError"}

\* lines 119-127 have just run and nothing has moved the offsets since
OffsetsCentred ==
    \/ pc = "saliency"
    \/ pc \in {"window", "returned"} /\ probe # "ok"

\* crop() is over
CropDone == pc \in {"returned", "raised"}

\* n / 2 truncated toward zero
TruncHalf(n) == IF n >= 0 THEN n \div 2 ELSE -((-n) \div 2)

\* r is an integer nearest to the fraction a / b, b > 0
IsNearest(r, a, b) == 2 * Abs(r * b - a) <= b

\* C1: for positive W, H, Tw, Th the resize dimensions (Rw, Rh) satisfy
\* Rw >= Tw, Rh >= Th and min(Rw - Tw, Rh - Th) = 0.
C1_ResizeCoversDisplay ==
    (PositiveInputs /\ ResizeComputed) =>
        /\ resize[1] >= disp_w
        /\ resize[2] >= disp_h
        /\ Min(resize[1] - disp_w, resize[2] - disp_h) = 0

\* C2: for a non-empty image and positive Tw, Th crop() returns an image of
\* exactly Tw x Th pixels, in both modes, whatever the saliency probe does.
C2_CropReturnsDisplaySize ==
    (PositiveInputs /\ CropDone) =>
        /\ pc = "returned"
        /\ cropped_image = Shape(disp_h, disp_w)

\* C3: in intelligent mode, after the clamped shift, the window lies inside
\* the resized image: 0 <= x_off, x_off + Tw <= Rw, 0 <= y_off, y_off + Th <= Rh.
C3_WindowInsideResized ==
    (PositiveInputs /\ intelligent /\ probe = "ok") =>
        /\ 0 <= x_off
        /\ x_off + disp_w <= resized_image.w
        /\ 0 <= y_off
        /\ y_off + disp_h <= resized_image.h

\* C4: when the saliency probe is unavailable (it reports no success, or
\* something raises), the offsets stay the centred ones, crop() ends as it
\* ends for intelligent=False, and the probe's failure is not raised.
C4_ProbeUnavailableIsCentred ==
    probe \in {"fail", "exception"} =>
        /\ x_off = CenterOffset(img_w, disp_w)
        /\ y_off = CenterOffset(img_h, disp_h)
        /\ pc \in {"window", "returned", "raised"}
        /\ CropDone =>
              LET out == WindowOutcome(resized_image,
                                       CenterOffset(resized_image.w, disp_w),
                                       CenterOffset(resized_image.h, disp_h),
                                       disp_w, disp_h)
              IN  /\ cropped_image = out.cropped_image
                  /\ raised = out.raised
                  /\ (pc = "returned") = (out.raised = "none")

\* C4, its case: the probe was unavailable for an image that has to be
\* cropped, and crop() returned the centred window
C4_Witness ==
    /\ probe \in {"fail", "exception"}
    /\ pc = "returned"
    /\ x_off + y_off > 0
    /\ cropped_image = Shape(disp_h, disp_w)

\* C6: crop() fails with an invalid-dimensions error, before any resize or
\* crop, whenever one of W, H, Tw, Th is not positive.
C6_InvalidDimensionsRejected ==
    (InvalidDims /\ pc # "crop") =>
        /\ pc = "raised"
        /\ raised = "ValueError"
        /\ resized_image = None

\* C7 as the specification states it: once the centred offsets are computed,
\* exactly one of x_off and y_off is zero and the other is the half-difference.
C7_ExactlyOneOffsetZero ==
    OffsetsCentred =>
        /\ (x_off = 0) # (y_off = 0)
        /\ x_off = TruncHalf(resized_image.w - disp_w)
        /\ y_off = TruncHalf(resized_image.h - disp_h)

\* C7 as the code has it: once the centred offsets are computed, at least one
\* of x_off and y_off is zero, and each is the difference of the resized and
\* the display dimension of its axis, halved and truncated toward zero.
C7_CentredOffsets ==
    OffsetsCentred =>
        /\ x_off = 0 \/ y_off = 0
        /\ x_off = TruncHalf(resized_image.w - disp_w)
        /\ y_off = TruncHalf(resized_image.h - disp_h)

\* C7, its case: the centred offsets of an image that is too high
C7_Witness ==
    /\ pc = "window"
    /\ probe = "none"
    /\ x_off = 0
    /\ y_off > 0

\* C8: the resize dimensions are (Tw, round(Tw / (W/H))) if W/H < Tw/Th and
\* (round(Th * (W/H)), Th) otherwise, round being the nearest integer.
C8_ResizeIsRounded ==
    (PositiveInputs /\ ResizeComputed) =>
        IF image.w * disp_h < disp_w * image.h
        THEN /\ resize[1] = disp_w
             /\ IsNearest(resize[2], disp_w * image.h, image.w)
        ELSE /\ IsNearest(resize[1], disp_h * image.w, image.h)
             /\ resize[2] = disp_h

\* C9 as the specification states it: the smoothed profile has the length of
\* the profile, and the argmax index is a position of the profile.
C9_SmoothedSameLength ==
    probe = "ok" =>
        /\ smooth_len = Len(profile)
        /\ 0 <= sal_centre
        /\ sal_centre < Len(profile)

\* C9 as the code has it: the smoothed profile has the length of the profile
\* or of the kernel, whichever is longer, and the argmax index is still a
\* position of the profile.
C9_SmoothedProfile ==
    probe = "ok" =>
        /\ smooth_len = Max(Len(profile), CONVOLUTION_KERNEL_SIZE)
        /\ 0 <= sal_centre
        /\ sal_centre < Len(profile)

\* C9, its case: a profile shorter than the kernel whose maximum is not at
\* its start
C9_Witness ==
    /\ probe = "ok"
    /\ Len(profile) < CONVOLUTION_KERNEL_SIZE
    /\ smooth_len = CONVOLUTION_KERNEL_SIZE
    /\ sal_centre > 0

\* C10: the geometry check never fires: x_off and y_off are never both
\* nonzero and the AssertionError is never raised.
C10_GeometryCheckUnreachable ==
    /\ raised # "AssertionError"
    /\ x_off = 0 \/ y_off = 0

\* C10, its case: the geometry check was passed with an offset that is not zero
C10_Witness ==
    /\ PositiveInputs
    /\ pc = "returned"
    /\ x_off > 0 \/ y_off > 0

(***************************************************************************)
(* The property of main(), checked under SpecMain.                         *)
(***************************************************************************)
\* C5: with an output configured and the image processed, a failure of the
\* display does not prevent the save: save_image is called, once, with the
\* processed image, and main returns 0 if the save succeeds.
C5_DisplayFailureStillSaves ==
    (display_error # "none" /\ args.output /\ pc = "exit") =>
        /\ save_calls = << processed_image >>
        /\ processed_image # None
        /\ saved => ret = 0

\* C5, its case: the display failed, the image was saved and main returned 0
C5_Witness ==
    /\ pc = "exit"
    /\ args.output
    /\ display_error = "RuntimeError"
    /\ save_calls = << processed_image >>
    /\ saved
    /\ ret = 0

=============================================================================
